---- MODULE Spec2Model ----
(***************************************************************************)
(* State-machine model of the rrweb recording utilities: cutRecording,     *)
(* trimRecording, createTrueSyntheticSnapshot (with pauseAndWait),         *)
(* trimRecordingFallback, findEventsByContent, analyzeRecording,           *)
(* formatTime and parseTimeString, and of the trim handles of the App      *)
(* component.                                                              *)
(*                                                                         *)
(* An event is a record                                                    *)
(*   type      : the rrweb numeric type tag (2 full snapshot,              *)
(*               3 incremental snapshot, 4 meta)                           *)
(*   source    : data.source of an incremental snapshot (0 = mutation),    *)
(*               -1 when the payload has no source                         *)
(*   data      : the identity of the opaque payload                        *)
(*   timestamp : the timestamp, a JavaScript number, kept as the fraction  *)
(*   den         timestamp / den in lowest terms (den = 1 for every input  *)
(*               event; only the fallback's compression divides)           *)
(* The optional tabId field is not modelled.                               *)
(*                                                                         *)
(* The replayer and the DOM snapshot are external: each of their calls     *)
(* either returns or raises, chosen freely at the step that makes the      *)
(* call.  replayer = "destroyed" records that destroy() has been called.   *)
(* One action is one run to completion of a JavaScript task: the call      *)
(* itself or a timer callback, together with the promise continuations     *)
(* it triggers.                                                            *)
(***************************************************************************)
EXTENDS Integers, Sequences, FiniteSets, TLC

VARIABLES
    events,             \* the source log handed to the utilities
    engineKind,         \* how the external replayer behaves while polled
    op,                 \* the utility that was called: "none", "cut", "trim"
    pc,                 \* where the call is
    args,               \* the arguments as the caller passed them
    startMs,            \* trimRecording's parameter startMs (reassigned by the clamp)
    endMs,              \* trimRecording's parameter endMs (reassigned by the clamp)
    container,          \* TRUE while the hidden container is a child of document.body
    replayer,           \* "none", "live", "destroyed"
    attempts,           \* the poll counter of the wait for playback (0 once the wait is over)
    checkInterval,      \* TRUE while the 10 ms polling interval is armed
    reported,           \* the current time the replayer reported at the last poll, minus relativeTarget
    phases,             \* the builder steps taken so far, in order
    builderOutcome,     \* "none", "resolved", or the error the builder rejected with
    usedFallback,       \* TRUE once trimRecordingFallback was called
    result,             \* what the call returned or threw
    syntheticSnapshot,  \* the events createTrueSyntheticSnapshot resolved with (at most one)
    stats,              \* what analyzeRecording returned for the source log and for the returned log
    requests,           \* concurrent trimRecording calls on the same log: the state of each
    body,               \* concurrent calls: the calls whose container is a child of document.body
    util,               \* a direct call of formatTime, parseTimeString or analyzeRecording
    app                 \* the App component's state: duration, currentTime, trim handles

vars == <<events, engineKind, op, pc, args, startMs, endMs, container, replayer,
          attempts, checkInterval, reported, phases, builderOutcome, usedFallback, result,
          syntheticSnapshot, stats, requests, body, util, app>>

\* the state of the concurrent calls
concVars == <<requests, body>>

----------------------------------------------------------------------------
(* Bounds of the model *)

MaxLen == 3             \* longest source log
MaxSeconds == 1         \* largest centerSeconds
ExtraPolls == 2         \* interval callbacks allowed beyond maxAttempts

TimeStamps == {0, 500, 1000, 31000}

\* startMs / endMs of a single call: every timestamp a log can hold, so that
\* they fall before, inside and after the logs that span less
TrimArgs == TimeStamps
\* the ranges asked for: every pair of TrimArgs, and one that ends past them
TrimRanges == (TrimArgs \X TrimArgs) \cup {<<31000, 31500>>}

----------------------------------------------------------------------------
(* Events and logs *)

FullSnapshot == 2
IncrementalSnapshot == 3
Meta == 4
Mutation == 0
MouseMove == 1
NoSource == 0 - 1

\* payload identities of the events the utilities create themselves
CutFillerData == 0 - 1
TrimMetaData == 0 - 2
SyntheticData == 0 - 3
FallbackFillerData == 0 - 4

Event(t, s, d, ts) == [type |-> t, source |-> s, data |-> d, timestamp |-> ts, den |-> 1]

Kinds == { <<FullSnapshot, NoSource>>, <<IncrementalSnapshot, Mutation>>,
           <<IncrementalSnapshot, MouseMove>>, <<Meta, NoSource>> }

\* a.timestamp <= b.timestamp and a.timestamp < b.timestamp on fractions
TsLeq(a, b) == a.timestamp * b.den <= b.timestamp * a.den
TsLess(a, b) == a.timestamp * b.den < b.timestamp * a.den

IsOrdered(log) == \A i \in 1..(Len(log) - 1) : TsLeq(log[i], log[i + 1])

\* the source logs: ordered by timestamp, payload i at position i
LogsOfLen(n) ==
    { [i \in 1..n |-> Event(f[i][1][1], f[i][1][2], i, f[i][2])] :
        f \in { g \in [1..n -> Kinds \X TimeStamps] :
                  \A i \in 1..(n - 1) : g[i][2] <= g[i + 1][2] } }

Logs == UNION { LogsOfLen(n) : n \in 0..MaxLen }

Abs(x) == IF x < 0 THEN 0 - x ELSE x
Min(a, b) == IF a < b THEN a ELSE b

RECURSIVE GCD(_, _)
GCD(a, b) == IF b = 0 THEN a ELSE GCD(b, a % b)

\* what a call returns (kind "log") or throws (kind "error")
Ok(log) == [kind |-> "log", log |-> log, error |-> ""]
Err(msg) == [kind |-> "error", log |-> <<>>, error |-> msg]
NoResult == [kind |-> "none", log |-> <<>>, error |-> ""]

\* Array.prototype.sort((a, b) => a.timestamp - b.timestamp): a stable sort
RECURSIVE InsertSorted(_, _)
InsertSorted(s, e) ==
    IF s = <<>> THEN <<e>>
    ELSE IF TsLeq(s[Len(s)], e) THEN Append(s, e)
    ELSE Append(InsertSorted(SubSeq(s, 1, Len(s) - 1), e), s[Len(s)])

RECURSIVE SortByTimestamp(_)
SortByTimestamp(s) ==
    IF s = <<>> THEN <<>>
    ELSE InsertSorted(SortByTimestamp(SubSeq(s, 1, Len(s) - 1)), s[Len(s)])

\* events.find(pred): index of the first event of type t, 0 when there is none
FindType(log, t) ==
    IF \E i \in 1..Len(log) : log[i].type = t
    THEN CHOOSE i \in 1..Len(log) : log[i].type = t /\ \A j \in 1..(i - 1) : log[j].type # t
    ELSE 0

----------------------------------------------------------------------------
(* cutRecording *)

\* the scan for the full snapshot closest to cutStartTime; best = 0 is
\* fullSnapshot = null with bestDistance = Infinity
\* ClosestSnapshot with "distance <= bestDistance": the last of the nearest wins
RECURSIVE ClosestSnapshotLastWins(_, _, _, _)
ClosestSnapshotLastWins(log, i, best, cutStartTime) ==
    IF i > Len(log) THEN best
    ELSE IF log[i].type = FullSnapshot
            /\ (best = 0 \/ Abs(log[i].timestamp - cutStartTime)
                              <= Abs(log[best].timestamp - cutStartTime))
         THEN ClosestSnapshotLastWins(log, i + 1, i, cutStartTime)
         ELSE ClosestSnapshotLastWins(log, i + 1, best, cutStartTime)

RECURSIVE ClosestSnapshot(_, _, _, _)
ClosestSnapshot(log, i, best, cutStartTime) ==
    IF i > Len(log) THEN best
    ELSE IF log[i].type = FullSnapshot
            /\ (best = 0 \/ Abs(log[i].timestamp - cutStartTime)
                              < Abs(log[best].timestamp - cutStartTime))
         THEN ClosestSnapshot(log, i + 1, i, cutStartTime)
         ELSE ClosestSnapshot(log, i + 1, best, cutStartTime)

CutStartTime(log, centerTimeSeconds, beforeSeconds) ==
    log[1].timestamp + centerTimeSeconds * 1000 - beforeSeconds * 1000

CutEndTime(log, centerTimeSeconds, afterSeconds) ==
    log[1].timestamp + centerTimeSeconds * 1000 + afterSeconds * 1000

\* RangeStart without the Math.min: the range always starts at cutStartTime
RangeStartAtCut(fullSnapshot, cutStartTime) == cutStartTime

\* "const rangeStart = Math.min(snapshotTime, cutStartTime)"
RangeStart(fullSnapshot, cutStartTime) == Min(fullSnapshot.timestamp, cutStartTime)

\* EnsureTwoEvents without the filler event
EnsureTwoEventsNoFiller(newEvents) == newEvents

\* EnsureTwoEvents with the filler a whole second after the last event
EnsureTwoEventsLateFiller(newEvents) ==
    IF Len(newEvents) < 2
    THEN Append(newEvents, Event(Meta, NoSource, CutFillerData,
                                 newEvents[Len(newEvents)].timestamp + 1000))
    ELSE newEvents

\* "if (newEvents.length < 2)" push a Meta event 100 ms after the last one
EnsureTwoEvents(newEvents) ==
    IF Len(newEvents) < 2
    THEN Append(newEvents, Event(Meta, NoSource, CutFillerData,
                                 newEvents[Len(newEvents)].timestamp + 100))
    ELSE newEvents

cutRecording(log, centerTimeSeconds, beforeSeconds, afterSeconds) ==
    IF Len(log) = 0 THEN Err("Invalid events array provided")
    ELSE
      LET cutStartTime == CutStartTime(log, centerTimeSeconds, beforeSeconds)
          cutEndTime == CutEndTime(log, centerTimeSeconds, afterSeconds)
          best == ClosestSnapshot(log, 1, 0, cutStartTime)
      IN IF best = 0 THEN Err("No full snapshot found in recording")
         ELSE
           LET fullSnapshot == log[best]
               rangeStart == RangeStart(fullSnapshot, cutStartTime)
               rangeEnd == cutEndTime
               InRange(e) == e.timestamp >= rangeStart /\ e.timestamp <= rangeEnd
               neededEvents == SelectSeq(log, InRange)
               NotTheSnapshot(e) == e.timestamp # fullSnapshot.timestamp \/ e.type # FullSnapshot
               newEvents == <<fullSnapshot>> \o SelectSeq(neededEvents, NotTheSnapshot)
           IN Ok(SortByTimestamp(EnsureTwoEvents(newEvents)))

----------------------------------------------------------------------------
(* trimRecordingFallback *)

IsSnapshotAt(log, i) == log[i].type = FullSnapshot

\* the least of a set of positions: what a loop that stops at its first match
\* leaves behind
FirstOf(S) == IF S = {} THEN 0 ELSE CHOOSE i \in S : \A j \in S : i <= j

\* the greatest of a set of positions, 0 for the empty set: what a loop
\* that overwrites baseSnapshotIndex on every match leaves behind
LastOf(S) == IF S = {} THEN 0 ELSE CHOOSE i \in S : \A j \in S : j <= i

threshold == 30000

\* first loop: full snapshots within 30 seconds before startMs
LastSnapshotWithin(log, start) ==
    LastOf({ i \in 1..Len(log) : /\ IsSnapshotAt(log, i)
                                 /\ log[i].timestamp <= start
                                 /\ log[i].timestamp >= start - threshold })

\* second loop: full snapshots at or before startMs
LastSnapshotBefore(log, start) ==
    LastOf({ i \in 1..Len(log) : IsSnapshotAt(log, i) /\ log[i].timestamp <= start })

\* BaseSnapshotIndex without "use the first one"
BaseSnapshotIndexNotAfter(log, start) ==
    IF LastSnapshotWithin(log, start) # 0 THEN LastSnapshotWithin(log, start)
    ELSE LastSnapshotBefore(log, start)

BaseSnapshotIndex(log, start) ==
    IF LastSnapshotWithin(log, start) # 0 THEN LastSnapshotWithin(log, start)
    ELSE IF LastSnapshotBefore(log, start) # 0 THEN LastSnapshotBefore(log, start)
    ELSE FindType(log, FullSnapshot)

\* "event.type === 3 && event.data && event.data.source === 0"
IsMutation(e) == e.type = IncrementalSnapshot /\ e.source = Mutation

\* WalkFrom without "only include mutations" before startMs
RECURSIVE WalkFromKeepingEarlier(_, _, _, _)
WalkFromKeepingEarlier(log, i, start, end) ==
    IF i > Len(log) THEN <<>>
    ELSE IF log[i].timestamp > end THEN <<>>
    ELSE IF log[i].type = FullSnapshot THEN WalkFromKeepingEarlier(log, i + 1, start, end)
    ELSE <<log[i]>> \o WalkFromKeepingEarlier(log, i + 1, start, end)

\* WalkFrom without "skip full snapshots"
RECURSIVE WalkFromKeepingSnapshots(_, _, _, _)
WalkFromKeepingSnapshots(log, i, start, end) ==
    IF i > Len(log) THEN <<>>
    ELSE IF log[i].timestamp > end THEN <<>>
    ELSE IF log[i].timestamp < start
         THEN IF IsMutation(log[i])
              THEN <<log[i]>> \o WalkFromKeepingSnapshots(log, i + 1, start, end)
              ELSE WalkFromKeepingSnapshots(log, i + 1, start, end)
         ELSE <<log[i]>> \o WalkFromKeepingSnapshots(log, i + 1, start, end)

\* the walk from baseSnapshotIndex + 1: break past endMs, skip full snapshots,
\* before startMs keep mutations only
RECURSIVE WalkFrom(_, _, _, _)
WalkFrom(log, i, start, end) ==
    IF i > Len(log) THEN <<>>
    ELSE IF log[i].timestamp > end THEN <<>>
    ELSE IF log[i].type = FullSnapshot THEN WalkFrom(log, i + 1, start, end)
    ELSE IF log[i].timestamp < start
         THEN IF IsMutation(log[i])
              THEN <<log[i]>> \o WalkFrom(log, i + 1, start, end)
              ELSE WalkFrom(log, i + 1, start, end)
         ELSE <<log[i]>> \o WalkFrom(log, i + 1, start, end)

\* n / d as a fraction in lowest terms with a positive denominator
Fraction(e, n, d) ==
    LET g == GCD(Abs(n), Abs(d))
        sgn == IF d < 0 THEN 0 - 1 ELSE 1
    IN [e EXCEPT !.timestamp = (sgn * n) \div g, !.den = (sgn * d) \div g]

\* "compressionRatio = Math.min(relativeTime / timeShift, 1); timestamp: compressionRatio * 100"
Compressed(e, relativeTime, timeShift) ==
    IF timeShift = 0 THEN [e EXCEPT !.timestamp = 100, !.den = 1]
    ELSE IF timeShift > 0 /\ relativeTime >= timeShift THEN [e EXCEPT !.timestamp = 100, !.den = 1]
    ELSE Fraction(e, 100 * relativeTime, timeShift)

\* ShiftEvent without the compression branch
ShiftEventUniformly(e, start, baseTime, timeShift) ==
    [e EXCEPT !.timestamp = e.timestamp - start + 100]

ShiftEvent(e, start, baseTime, timeShift) ==
    IF e.timestamp < start /\ IsMutation(e)
    THEN Compressed(e, e.timestamp - baseTime, timeShift)
    ELSE [e EXCEPT !.timestamp = e.timestamp - start + 100]

\* WithMinimalEvent without the minimal event
WithMinimalEventOmitted(newEvents, baseSnapshot) == newEvents

\* "if (newEvents.length === 1)" push an empty mutation 10 ms after the base
WithMinimalEvent(newEvents, baseSnapshot) ==
    IF Len(newEvents) = 1
    THEN Append(newEvents, Event(IncrementalSnapshot, Mutation, FallbackFillerData,
                                 baseSnapshot.timestamp + 10))
    ELSE newEvents

trimRecordingFallback(log, start, end) ==
    LET baseSnapshotIndex == BaseSnapshotIndex(log, start)
    IN IF baseSnapshotIndex = 0 THEN Err("No full snapshot found in recording")
       ELSE
         LET baseSnapshot == log[baseSnapshotIndex]
             metaIndex == FindType(log, Meta)
             metaCopy == IF metaIndex = 0 THEN <<>>
                         ELSE << [log[metaIndex] EXCEPT !.timestamp = baseSnapshot.timestamp + 1] >>
             collected == <<baseSnapshot>> \o metaCopy
                            \o WalkFrom(log, baseSnapshotIndex + 1, start, end)
             sorted == SortByTimestamp(collected)
             newEvents == WithMinimalEvent(sorted, baseSnapshot)
             timeShift == start - baseSnapshot.timestamp
             baseTime == newEvents[1].timestamp
             shiftedEvents == [i \in 1..Len(newEvents) |->
                                 ShiftEvent(newEvents[i], start, baseTime, timeShift)]
         IN IF Len(shiftedEvents) < 2
            THEN Err("Trimmed recording has too few events")
            ELSE Ok(shiftedEvents)

----------------------------------------------------------------------------
(* trimRecording: the synchronous parts *)

Max(a, b) == IF a > b THEN a ELSE b

\* ClampStart without the adjustment
ClampStartUnadjusted(log, start) == start

\* "if (startMs < recordingStart) startMs = recordingStart"
ClampStart(log, start) == Max(start, log[1].timestamp)

\* ClampEnd without the adjustment
ClampEndUnadjusted(log, end) == end

\* "if (endMs > recordingEnd) endMs = recordingEnd"
ClampEnd(log, end) == Min(end, log[Len(log)].timestamp)

\* "snapshots.find((s) => Math.abs(s.timestamp - startMs) < 1000)": index of
\* the first full snapshot within one second of startMs, 0 for undefined
CloseSnapshot(log, start) ==
    LET S == { i \in 1..Len(log) :
                 log[i].type = FullSnapshot /\ Abs(log[i].timestamp - start) < 1000 }
    IN IF S = {} THEN 0 ELSE CHOOSE i \in S : \A j \in S : i <= j

\* "closeSnapshot && closeSnapshot.timestamp === startMs"
ExactSnapshot(log, start) ==
    LET close == CloseSnapshot(log, start)
    IN IF close # 0 /\ log[close].timestamp = start THEN close ELSE 0

\* SyntheticSnapshot stamped with the relative origin instead of targetTimestamp
SyntheticSnapshotAtOrigin(targetTimestamp) ==
    Event(FullSnapshot, NoSource, SyntheticData, 0)

\* the event createTrueSyntheticSnapshot resolves with
SyntheticSnapshot(targetTimestamp) ==
    Event(FullSnapshot, NoSource, SyntheticData, targetTimestamp)

\* BuildTrimmed shifting the range events by 1 instead of 2
BuildTrimmedShiftOne(log, snapshot, start, end) ==
    LET InRange(e) == e.timestamp > start /\ e.timestamp <= end
        eventsInRange == SelectSeq(log, InRange)
        adjusted == [i \in 1..Len(eventsInRange) |->
                       [eventsInRange[i] EXCEPT !.timestamp = eventsInRange[i].timestamp - start + 1]]
    IN SortByTimestamp(<<Event(Meta, NoSource, TrimMetaData, 0), [snapshot EXCEPT !.timestamp = 1]>>
                         \o adjusted)

\* BuildTrimmed keeping the events at startMs as well
BuildTrimmedInclusive(log, snapshot, start, end) ==
    LET InRange(e) == e.timestamp >= start /\ e.timestamp <= end
        eventsInRange == SelectSeq(log, InRange)
        adjusted == [i \in 1..Len(eventsInRange) |->
                       [eventsInRange[i] EXCEPT !.timestamp = eventsInRange[i].timestamp - start + 2]]
    IN SortByTimestamp(<<Event(Meta, NoSource, TrimMetaData, 0), [snapshot EXCEPT !.timestamp = 1]>>
                         \o adjusted)

\* the new events array of the reconstruction path
BuildTrimmed(log, snapshot, start, end) ==
    LET metaEvent == Event(Meta, NoSource, TrimMetaData, 0)
        adjustedSnapshot == [snapshot EXCEPT !.timestamp = 1]
        InRange(e) == e.timestamp > start /\ e.timestamp <= end
        eventsInRange == SelectSeq(log, InRange)
        adjusted == [i \in 1..Len(eventsInRange) |->
                       [eventsInRange[i] EXCEPT !.timestamp = eventsInRange[i].timestamp - start + 2]]
    IN SortByTimestamp(<<metaEvent, adjustedSnapshot>> \o adjusted)

----------------------------------------------------------------------------
(* findEventsByContent: strings are sequences of one-character strings *)

DigitChar(d) ==
    CASE d = 0 -> "0" [] d = 1 -> "1" [] d = 2 -> "2" [] d = 3 -> "3" [] d = 4 -> "4"
      [] d = 5 -> "5" [] d = 6 -> "6" [] d = 7 -> "7" [] d = 8 -> "8" [] d = 9 -> "9"

\* Number.prototype.toString() of an integer
RECURSIVE NumberToString(_)
NumberToString(n) ==
    IF n < 0 THEN <<"-">> \o NumberToString(0 - n)
    ELSE IF n < 10 THEN <<DigitChar(n)>>
    ELSE NumberToString(n \div 10) \o <<DigitChar(n % 10)>>

\* JSON.stringify(event): {"type":T,"data":{"source":S,"id":D},"timestamp":N},
\* the payload without "source" when the event has none
Stringify(e) ==
    <<"{", "\"", "t", "y", "p", "e", "\"", ":">> \o NumberToString(e.type)
      \o <<",", "\"", "d", "a", "t", "a", "\"", ":", "{">>
      \o (IF e.source = NoSource THEN <<>>
          ELSE <<"\"", "s", "o", "u", "r", "c", "e", "\"", ":">>
                 \o NumberToString(e.source) \o <<",">>)
      \o <<"\"", "i", "d", "\"", ":">> \o NumberToString(e.data) \o <<"}">>
      \o <<",", "\"", "t", "i", "m", "e", "s", "t", "a", "m", "p", "\"", ":">>
      \o NumberToString(e.timestamp) \o <<"}">>

LowerChar(c) ==
    CASE c = "A" -> "a" [] c = "D" -> "d" [] c = "E" -> "e" [] c = "I" -> "i"
      [] c = "P" -> "p" [] c = "T" -> "t" [] c = "Y" -> "y" [] OTHER -> c

\* String.prototype.toLowerCase()
ToLowerCase(str) == [i \in 1..Len(str) |-> LowerChar(str[i])]

\* String.prototype.includes(): the empty string is included in every string
Includes(str, sub) ==
    \E i \in 0..(Len(str) - Len(sub)) : SubSeq(str, i + 1, i + Len(sub)) = sub

\* the terms searched for
SearchTerms ==
    { <<>>,
      <<"T", "Y", "P", "E">>,
      <<" ", "5", "0", "0">>,
      <<" ">> }

\* String.prototype.trim()
RECURSIVE Trim(_)
Trim(str) ==
    IF str = <<>> THEN <<>>
    ELSE IF Head(str) = " " THEN Trim(Tail(str))
    ELSE IF str[Len(str)] = " " THEN Trim(SubSeq(str, 1, Len(str) - 1))
    ELSE str

findEventsByContent(log, searchTerm) ==
    LET Matches(event) == Includes(ToLowerCase(Stringify(event)), ToLowerCase(searchTerm))
    IN SelectSeq(log, Matches)

----------------------------------------------------------------------------
(* formatTime and parseTimeString *)

\* the largest number of seconds formatted (10:10:10)
MaxFormatSeconds == 36610

\* String.prototype.padStart(targetLength, padString) with a one-character pad
PadStartNone(str, targetLength, padString) == str

RECURSIVE PadStart(_, _, _)
PadStart(str, targetLength, padString) ==
    IF Len(str) >= targetLength THEN str
    ELSE PadStart(<<padString>> \o str, targetLength, padString)

formatTime(seconds) ==
    LET hours == seconds \div 3600
        minutes == (seconds % 3600) \div 60
        secs == seconds % 60
    IN IF hours > 0
       THEN NumberToString(hours) \o <<":">> \o PadStart(NumberToString(minutes), 2, "0")
              \o <<":">> \o PadStart(NumberToString(secs), 2, "0")
       ELSE NumberToString(minutes) \o <<":">> \o PadStart(NumberToString(secs), 2, "0")

IsDigit(c) == c \in {"0", "1", "2", "3", "4", "5", "6", "7", "8", "9"}

DigitValue(c) == CHOOSE d \in 0..9 : DigitChar(d) = c

\* /^\d+$/.test(str)
IsDigits(str) == Len(str) > 0 /\ \A i \in 1..Len(str) : IsDigit(str[i])

\* parseInt(str) of a digits-only string
RECURSIVE ParseInt(_)
ParseInt(str) ==
    IF Len(str) = 0 THEN 0
    ELSE 10 * ParseInt(SubSeq(str, 1, Len(str) - 1)) + DigitValue(str[Len(str)])

\* a number or NaN
Num(n) == [nan |-> FALSE, value |-> n]
NaN == [nan |-> TRUE, value |-> 0]

\* Number(str): 0 for the empty string, NaN for what is not a decimal numeral
ToNumber(str) ==
    IF Len(str) = 0 THEN Num(0)
    ELSE IF IsDigits(str) THEN Num(ParseInt(str))
    ELSE NaN

Times(a, b) == IF a.nan \/ b.nan THEN NaN ELSE Num(a.value * b.value)
Plus(a, b) == IF a.nan \/ b.nan THEN NaN ELSE Num(a.value + b.value)

\* String.prototype.split(sep) with a one-character separator
RECURSIVE Split(_, _)
Split(str, sep) ==
    IF \A i \in 1..Len(str) : str[i] # sep THEN <<str>>
    ELSE LET i == CHOOSE j \in 1..Len(str) :
                    str[j] = sep /\ \A k \in 1..(j - 1) : str[k] # sep
         IN <<SubSeq(str, 1, i - 1)>> \o Split(SubSeq(str, i + 1, Len(str)), sep)

parseTimeString(timeStr) ==
    IF Len(timeStr) = 0 THEN Num(0)
    ELSE IF IsDigits(timeStr) THEN Num(ParseInt(timeStr))
    ELSE LET split == Split(timeStr, ":")
             parts == [i \in 1..Len(split) |-> ToNumber(split[i])]
         IN IF Len(parts) = 2
            THEN Plus(Times(parts[1], Num(60)), parts[2])
            ELSE IF Len(parts) = 3
            THEN Plus(Plus(Times(parts[1], Num(3600)), Times(parts[2], Num(60))), parts[3])
            ELSE Num(0)

\* the time strings typed into the cut field
TimeStrings ==
    { <<>>,
      <<"9", "0">>,
      <<"0", "0", "7">>,
      <<"1", ":", "3", "0">>,
      <<"1", ":", "0", "1", ":", "0", "5">>,
      <<"1", ":", "2", ":", "3", ":", "4">>,
      <<":">>,
      <<"1", ":", ":", "5">>,
      <<"a", ":", "5">>,
      <<"1", "x">> }

----------------------------------------------------------------------------
(* analyzeRecording *)

\* n / d as a number: a fraction in lowest terms with a positive denominator
Number(n, d) ==
    LET g == GCD(Abs(n), Abs(d))
        sgn == IF d < 0 THEN 0 - 1 ELSE 1
    IN [num |-> (sgn * n) \div g, den |-> (sgn * d) \div g]

\* "(lastTimestamp - firstTimestamp) / 1000"
Duration(first, last) ==
    Number(last.timestamp * first.den - first.timestamp * last.den,
           1000 * first.den * last.den)

\* the tally with "= 1" for "+ 1"
EventTypeCountsPresence(log) ==
    [t \in { log[i].type : i \in 1..Len(log) } |-> 1]

\* the tally "eventTypeCounts[event.type] = (eventTypeCounts[event.type] || 0) + 1"
EventTypeCounts(log) ==
    [t \in { log[i].type : i \in 1..Len(log) } |->
       Cardinality({ i \in 1..Len(log) : log[i].type = t })]

\* analyzeRecording's null
NullStats ==
    [null |-> TRUE, totalEvents |-> 0, duration |-> Number(0, 1),
     startTime |-> Number(0, 1), endTime |-> Number(0, 1), eventTypeCounts |-> <<>>]

analyzeRecording(log) ==
    IF Len(log) = 0 THEN NullStats
    ELSE [null |-> FALSE,
          totalEvents |-> Len(log),
          duration |-> Duration(log[1], log[Len(log)]),
          startTime |-> Number(log[1].timestamp, log[1].den),
          endTime |-> Number(log[Len(log)].timestamp, log[Len(log)].den),
          eventTypeCounts |-> EventTypeCounts(log)]

\* what analyzeRecording is handed: undefined, an object that is no array, or
\* an array of events
AnalyzeInputs ==
    { [kind |-> "undefined", items |-> <<>>], [kind |-> "object", items |-> <<>>] }
      \cup { [kind |-> "array", items |-> log] : log \in Logs }

\* "!events || !Array.isArray(events) || events.length === 0" returns null
analyzeRecordingOf(value) ==
    IF value.kind # "array" THEN NullStats ELSE analyzeRecording(value.items)

\* nothing analysed yet
NoStats == [analysed |-> FALSE, source |-> NullStats, returned |-> NullStats]

----------------------------------------------------------------------------
(* The state machine *)

maxAttempts == 1000

\* the logs an erratic replayer is exercised on
ErraticLogs ==
    { << Event(IncrementalSnapshot, Mutation, 1, 0),
         Event(FullSnapshot, NoSource, 2, 500),
         Event(Meta, NoSource, 3, 1000) >>,
      << Event(IncrementalSnapshot, Mutation, 1, 0),
         Event(IncrementalSnapshot, MouseMove, 2, 1000) >>,
      << Event(IncrementalSnapshot, Mutation, 1, 500),
         Event(FullSnapshot, NoSource, 2, 1000),
         Event(Meta, NoSource, 3, 31000) >> }

\* getCurrentTime() - relativeTarget as a poll can see it: a prompt replayer,
\* started at relativeTarget, is one interval past it at the first poll; an
\* erratic one may lag or raise
PollDeltas(kind) == IF kind = "prompt" THEN {11} ELSE {0 - 11, 0 - 10, 0, 10, 11}

\* the concurrent trimRecording calls
Requests == {1, 2}

\* a call that has not been made
IdleRequest ==
    [pc |-> "idle", args |-> <<>>, startMs |-> 0, endMs |-> 0, replayer |-> "none",
     attempts |-> 0, checkInterval |-> FALSE, builderOutcome |-> "none", result |-> NoResult]

\* the caller's array after a call that ran sort() and the timestamp
\* adjustment on the array it was handed
EventsAfterInPlace(log, newEvents) == IF newEvents = <<>> THEN log ELSE newEvents

\* the caller's array after a call that built newEvents: filter, find, map and
\* the spread copies read events, and sort() runs on newEvents
EventsAfter(log, newEvents) == log

\* no utility has been called directly
NoCall == [fn |-> "none", arg |-> <<>>, left |-> <<>>, ret |-> <<>>, seconds |-> 0 - 1]

\* the useState defaults of the App component
InitialApp ==
    [duration |-> 0, currentTime |-> 0, trimStart |-> 0, trimEnd |-> 0, isTrimmingMode |-> FALSE]

\* logs with a timestamp off the grid of TimeStamps
OffGridLogs ==
    { << Event(FullSnapshot, NoSource, 1, 0),
         Event(IncrementalSnapshot, MouseMove, 2, 0),
         Event(IncrementalSnapshot, Mutation, 3, 333),
         Event(IncrementalSnapshot, MouseMove, 4, 1000) >>,
      << Event(FullSnapshot, NoSource, 1, 0),
         Event(FullSnapshot, NoSource, 2, 500),
         Event(IncrementalSnapshot, Mutation, 3, 1000),
         Event(IncrementalSnapshot, MouseMove, 4, 31500) >>,
      << Event(FullSnapshot, NoSource, 1, 0),
         Event(IncrementalSnapshot, Mutation, 2, 333),
         Event(IncrementalSnapshot, Mutation, 3, 500),
         Event(IncrementalSnapshot, MouseMove, 4, 31000) >> }

Init ==
    /\ events \in Logs \cup OffGridLogs
    /\ engineKind \in {"prompt", "erratic"}
    /\ engineKind = "erratic" => events \in ErraticLogs
    /\ op = "none"
    /\ pc = "idle"
    /\ args = <<>>
    /\ startMs = 0
    /\ endMs = 0
    /\ container = FALSE
    /\ replayer = "none"
    /\ attempts = 0
    /\ checkInterval = FALSE
    /\ reported = 0
    /\ phases = <<>>
    /\ builderOutcome = "none"
    /\ usedFallback = FALSE
    /\ result = NoResult
    /\ syntheticSnapshot = <<>>
    /\ stats = NoStats
    /\ requests = [r \in Requests |-> IdleRequest]
    /\ body = {}
    /\ util = NoCall
    /\ app = InitialApp

\* cutRecording(events, centerTimeSeconds, beforeSeconds, afterSeconds)
CutRecording(centerTimeSeconds, beforeSeconds, afterSeconds) ==
    /\ pc = "idle"
    /\ op' = "cut"
    /\ args' = <<centerTimeSeconds, beforeSeconds, afterSeconds>>
    /\ result' = cutRecording(events, centerTimeSeconds, beforeSeconds, afterSeconds)
    /\ pc' = "done"
    /\ UNCHANGED <<syntheticSnapshot, stats, requests, body, util, app, engineKind, startMs, endMs, container, replayer, attempts,
                   checkInterval, reported, phases, builderOutcome, usedFallback>>
    /\ events' = EventsAfter(events, result'.log)

\* the catch block of createTrueSyntheticSnapshot: destroy the replayer if
\* there is one, remove the container if it is attached, reject
BuilderCatch(error) ==
    /\ replayer' = IF replayer = "live" THEN "destroyed" ELSE replayer
    /\ container' = FALSE
    /\ builderOutcome' = error

\* TrimCatch handing the caller's unclamped range to the fallback
TrimCatchUnclamped ==
    /\ usedFallback' = TRUE
    /\ result' = trimRecordingFallback(events, args'[1], args'[2])
    /\ pc' = "done"

\* the catch block of trimRecording: return trimRecordingFallback(events, startMs, endMs)
TrimCatch ==
    /\ usedFallback' = TRUE
    /\ result' = trimRecordingFallback(events, startMs', endMs')
    /\ pc' = "done"

\* trimRecording(events, startMs, endMs) up to its first suspension:
\* validation, clamp, the exact-snapshot shortcut, or the start of
\* createTrueSyntheticSnapshot (container, new Replayer, 100 ms timer)
TrimRecording(start, end) ==
    /\ pc = "idle"
    /\ op' = "trim"
    /\ args' = <<start, end>>
    /\ UNCHANGED <<syntheticSnapshot, stats, requests, body, util, app, engineKind, attempts, checkInterval, reported>>
    /\ IF Len(events) = 0
       THEN /\ result' = Err("Invalid events array provided")
            /\ pc' = "done"
            /\ UNCHANGED <<startMs, endMs, container, replayer, phases,
                           builderOutcome, usedFallback>>
       ELSE /\ startMs' = ClampStart(events, start)
            /\ endMs' = ClampEnd(events, end)
            /\ IF startMs' >= endMs'
               THEN /\ result' = Err("Invalid time range")
                    /\ pc' = "done"
                    /\ UNCHANGED <<container, replayer, phases, builderOutcome, usedFallback>>
               ELSE IF ExactSnapshot(events, startMs') # 0
               THEN /\ result' = Ok(BuildTrimmed(events, events[ExactSnapshot(events, startMs')],
                                                 startMs', endMs'))
                    /\ pc' = "done"
                    /\ UNCHANGED <<container, replayer, phases, builderOutcome, usedFallback>>
               ELSE \E constructed \in BOOLEAN :
                      IF constructed
                      THEN /\ container' = TRUE
                           /\ replayer' = "live"
                           /\ phases' = <<"container", "replayer">>
                           /\ pc' = "initializing"
                           /\ UNCHANGED <<builderOutcome, usedFallback, result>>
                      ELSE /\ phases' = <<"container">>
                           /\ BuilderCatch("Replayer")
                           /\ TrimCatch
    /\ events' = EventsAfter(events, result'.log)

\* the 100 ms initialisation timer fires: getMetaData(), play(relativeTarget),
\* then the polling interval is armed
InitTimer ==
    /\ pc = "initializing"
    /\ UNCHANGED <<syntheticSnapshot, stats, requests, body, util, app, engineKind, op, args, startMs, endMs, attempts, reported>>
    /\ \E step \in {"ok", "getMetaData", "play"} :
         IF step = "ok"
         THEN /\ phases' = Append(phases, "play")
              /\ checkInterval' = TRUE
              /\ pc' = "polling"
              /\ UNCHANGED <<container, replayer, builderOutcome, usedFallback, result>>
         ELSE /\ phases' = phases
              /\ checkInterval' = checkInterval
              /\ BuilderCatch(step)
              /\ TrimCatch
    /\ events' = EventsAfter(events, result'.log)

\* ReachedTarget with a tolerance of 11 ms
ReachedTargetWithin11(delta) == delta >= 0 - 11

\* "currentTime >= relativeTarget - 10", on delta = currentTime - relativeTarget
ReachedTarget(delta) == delta >= 0 - 10

\* one run of the interval callback in which getCurrentTime() returns
Poll(delta) ==
    /\ checkInterval
    /\ attempts < maxAttempts + ExtraPolls
    /\ delta \in PollDeltas(engineKind)
    /\ reported' = delta
    /\ UNCHANGED <<syntheticSnapshot, stats, requests, body, util, app, engineKind, op, args, startMs, endMs>>
    /\ IF ReachedTarget(delta)
       THEN \* clearInterval, resolve; the builder goes on into pauseAndWait
            /\ checkInterval' = FALSE
            /\ attempts' = 0
            /\ \E paused \in BOOLEAN :
                 IF paused
                 THEN /\ phases' = phases \o <<"reached", "pause">>
                      /\ pc' = "settling"
                      /\ UNCHANGED <<container, replayer, builderOutcome, usedFallback, result>>
                 ELSE /\ phases' = Append(phases, "reached")
                      /\ BuilderCatch("pause")
                      /\ TrimCatch
       ELSE IF attempts + 1 >= maxAttempts
       THEN \* clearInterval, reject with the timeout error
            /\ checkInterval' = FALSE
            /\ attempts' = 0
            /\ phases' = phases
            /\ BuilderCatch("Timeout waiting for playback to reach target")
            /\ TrimCatch
       ELSE /\ attempts' = attempts + 1
            /\ UNCHANGED <<pc, checkInterval, phases, container, replayer,
                           builderOutcome, usedFallback, result>>
    /\ events' = EventsAfter(events, result'.log)

\* one run of the interval callback in which getCurrentTime() raises: the
\* exception leaves the timer callback after attempts++, nothing is settled
\* and the interval stays armed
PollThrows ==
    /\ checkInterval
    /\ attempts < maxAttempts + ExtraPolls
    /\ engineKind = "erratic"
    /\ attempts' = attempts + 1
    /\ UNCHANGED <<syntheticSnapshot, stats, requests, body, util, app, engineKind, op, pc, args, startMs, endMs, container, replayer,
                   checkInterval, reported, phases, builderOutcome, usedFallback, result>>
    /\ events' = EventsAfter(events, result'.log)

\* the 300 ms settle timer of pauseAndWait fires; when it resolves the builder
\* captures the iframe document, builds the snapshot, cleans up and resolves,
\* and trimRecording builds its result
SettleTimer ==
    /\ pc = "settling"
    /\ UNCHANGED <<stats, requests, body, util, app, engineKind, op, args, startMs, endMs, attempts, checkInterval, reported>>
    /\ \E step \in {"ok", "getCurrentTime", "iframe", "contentDocument", "snapshot",
                    "Snapshot returned null", "getMetaData", "destroy"} :
         CASE step = "ok" ->
                /\ phases' = phases \o <<"settled", "capture", "destroy", "remove", "resolve">>
                /\ replayer' = "destroyed"
                /\ container' = FALSE
                /\ builderOutcome' = "resolved"
                /\ syntheticSnapshot' = <<SyntheticSnapshot(startMs)>>
                /\ result' = Ok(BuildTrimmed(events, syntheticSnapshot'[1], startMs, endMs))
                /\ pc' = "done"
                /\ UNCHANGED usedFallback
           [] step = "getCurrentTime" ->
                \* raised inside the timer callback: pauseAndWait's promise
                \* is never resolved nor rejected
                /\ pc' = "stalled"
                /\ UNCHANGED <<syntheticSnapshot, phases, container, replayer, builderOutcome, usedFallback, result>>
           [] step \in {"iframe", "contentDocument"} ->
                /\ UNCHANGED syntheticSnapshot
                /\ phases' = Append(phases, "settled")
                /\ BuilderCatch(step)
                /\ TrimCatch
           [] step \in {"snapshot", "Snapshot returned null", "getMetaData"} ->
                /\ UNCHANGED syntheticSnapshot
                /\ phases' = phases \o <<"settled", "capture">>
                /\ BuilderCatch(step)
                /\ TrimCatch
           [] step = "destroy" ->
                \* replayer.destroy() raises on the success path: the catch
                \* block calls it again and removes the container
                /\ UNCHANGED syntheticSnapshot
                /\ phases' = phases \o <<"settled", "capture", "destroy">>
                /\ BuilderCatch(step)
                /\ TrimCatch
    /\ events' = EventsAfter(events, result'.log)

\* findEventsByContent(events, searchTerm)
FindEventsByContent(searchTerm) ==
    /\ pc = "idle"
    /\ op' = "search"
    /\ args' = <<searchTerm>>
    /\ result' = Ok(findEventsByContent(events, searchTerm))
    /\ pc' = "found"
    /\ UNCHANGED <<syntheticSnapshot, stats, requests, body, util, app, engineKind, startMs, endMs,
                   container, replayer, attempts, checkInterval, reported, phases,
                   builderOutcome, usedFallback>>
    /\ events' = EventsAfter(events, result'.log)

\* App.searchEvents with searchTerm typed into the search box; foundEvents is
\* kept in result
SearchEvents(searchTerm) ==
    /\ pc = "idle"
    /\ op' = "searchEvents"
    /\ args' = <<searchTerm>>
    /\ result' = IF Trim(searchTerm) = <<>> THEN Ok(<<>>)
                 ELSE Ok(findEventsByContent(events, Trim(searchTerm)))
    /\ pc' = "found"
    /\ UNCHANGED <<syntheticSnapshot, stats, requests, body, util, app, engineKind, startMs, endMs,
                   container, replayer, attempts, checkInterval, reported, phases,
                   builderOutcome, usedFallback>>
    /\ events' = EventsAfter(events, result'.log)

\* the caller analyses the source log and the log it got back
AnalyzeRecording ==
    /\ pc = "done"
    /\ result.kind = "log"
    /\ stats' = [analysed |-> TRUE, source |-> analyzeRecording(events),
                 returned |-> analyzeRecording(result.log)]
    /\ pc' = "analyzed"
    /\ UNCHANGED <<engineKind, op, args, startMs, endMs, container, replayer,
                   attempts, checkInterval, reported, phases, builderOutcome, usedFallback,
                   result, syntheticSnapshot, requests, body, util, app>>
    /\ events' = EventsAfter(events, result'.log)

CutSeconds == 0..MaxSeconds
\* the beforeSeconds and afterSeconds asked for
CutMargins == {0, 1}

Next ==
    \/ \E c \in CutSeconds, b \in CutMargins, a \in CutMargins : CutRecording(c, b, a)
    \/ \E range \in TrimRanges : TrimRecording(range[1], range[2])
    \/ InitTimer
    \/ \E d \in PollDeltas(engineKind) : Poll(d)
    \/ PollThrows
    \/ SettleTimer
    \/ AnalyzeRecording
    \/ \E searchTerm \in SearchTerms : FindEventsByContent(searchTerm)
    \/ \E searchTerm \in SearchTerms : SearchEvents(searchTerm)

Spec == Init /\ [][Next]_vars

----------------------------------------------------------------------------
(* Two trimRecording calls in flight on the same events array: every call has
   its own startMs / endMs, container, replayer, attempts and checkInterval
   (parameters and closure variables); document.body is the one object the
   calls share *)

soloVars == <<events, engineKind, op, pc, args, startMs, endMs, container, replayer,
              attempts, checkInterval, reported, phases, builderOutcome, usedFallback,
              result, syntheticSnapshot, stats, util, app>>

\* the replayer of call 1 behaves as engineKind says, the one of call 2 is prompt
EngineOf(r) == IF r = 1 THEN engineKind ELSE "prompt"

ConcLogs ==
    { << Event(IncrementalSnapshot, Mutation, 1, 0),
         Event(FullSnapshot, NoSource, 2, 500),
         Event(Meta, NoSource, 3, 1000) >>,
      << Event(IncrementalSnapshot, Mutation, 1, 0),
         Event(IncrementalSnapshot, MouseMove, 2, 1000) >>,
      << Event(FullSnapshot, NoSource, 1, 0),
         Event(IncrementalSnapshot, Mutation, 2, 500),
         Event(IncrementalSnapshot, Mutation, 3, 1000) >> }

ConcArgs == { <<0, 1000>>, <<500, 1000>>, <<0 - 500, 31500>>, <<1000, 500>> }

\* what a trimRecording call running alone settles with, given how its
\* createTrueSyntheticSnapshot ended
trimRecording(log, start, end, outcome) ==
    IF Len(log) = 0 THEN Err("Invalid events array provided")
    ELSE LET s == ClampStart(log, start)
             e == ClampEnd(log, end)
         IN IF s >= e THEN Err("Invalid time range")
            ELSE IF ExactSnapshot(log, s) # 0
            THEN Ok(BuildTrimmed(log, log[ExactSnapshot(log, s)], s, e))
            ELSE IF outcome = "resolved"
            THEN Ok(BuildTrimmed(log, SyntheticSnapshot(s), s, e))
            ELSE trimRecordingFallback(log, s, e)

\* "document.body.appendChild(container)" of call r
AppendChild(b, r) == b \cup {r}

\* RemoveChild emptying document.body of every container
RemoveEveryChild(b, r) == {}

\* "document.body.removeChild(container)" of call r
RemoveChild(b, r) == b \ {r}

\* call q after the catch blocks of createTrueSyntheticSnapshot and
\* trimRecording
Caught(q, error) ==
    [q EXCEPT !.replayer = IF @ = "live" THEN "destroyed" ELSE @,
              !.builderOutcome = error,
              !.checkInterval = FALSE,
              !.attempts = 0,
              !.pc = "done",
              !.result = trimRecordingFallback(events, q.startMs, q.endMs)]

InitConc ==
    /\ Init
    /\ events \in ConcLogs

ConcTrimRecording(r, start, end) ==
    /\ requests[r].pc = "idle"
    /\ UNCHANGED soloVars
    /\ LET q == [requests[r] EXCEPT !.args = <<start, end>>]
       IN IF Len(events) = 0
          THEN /\ requests' = [requests EXCEPT ![r] =
                      [q EXCEPT !.pc = "done", !.result = Err("Invalid events array provided")]]
               /\ body' = body
          ELSE LET c == [q EXCEPT !.startMs = ClampStart(events, start),
                                  !.endMs = ClampEnd(events, end)]
               IN IF c.startMs >= c.endMs
                  THEN /\ requests' = [requests EXCEPT ![r] =
                              [c EXCEPT !.pc = "done", !.result = Err("Invalid time range")]]
                       /\ body' = body
                  ELSE IF ExactSnapshot(events, c.startMs) # 0
                  THEN /\ requests' = [requests EXCEPT ![r] =
                              [c EXCEPT !.pc = "done",
                                        !.result = Ok(BuildTrimmed(events,
                                                        events[ExactSnapshot(events, c.startMs)],
                                                        c.startMs, c.endMs))]]
                       /\ body' = body
                  ELSE \E constructed \in BOOLEAN :
                         IF constructed
                         THEN /\ requests' = [requests EXCEPT ![r] =
                                     [c EXCEPT !.pc = "initializing", !.replayer = "live"]]
                              /\ body' = AppendChild(body, r)
                         ELSE /\ requests' = [requests EXCEPT ![r] = Caught(c, "Replayer")]
                              /\ body' = RemoveChild(AppendChild(body, r), r)

ConcInitTimer(r) ==
    /\ requests[r].pc = "initializing"
    /\ UNCHANGED soloVars
    /\ \E step \in {"ok", "getMetaData", "play"} :
         IF step = "ok"
         THEN /\ requests' = [requests EXCEPT ![r].pc = "polling", ![r].checkInterval = TRUE]
              /\ body' = body
         ELSE /\ requests' = [requests EXCEPT ![r] = Caught(requests[r], step)]
              /\ body' = RemoveChild(body, r)

ConcPoll(r, delta) ==
    /\ requests[r].checkInterval
    /\ requests[r].attempts < maxAttempts + ExtraPolls
    /\ delta \in PollDeltas(EngineOf(r))
    /\ UNCHANGED soloVars
    /\ IF ReachedTarget(delta)
       THEN \E paused \in BOOLEAN :
              IF paused
              THEN /\ requests' = [requests EXCEPT ![r].checkInterval = FALSE,
                                                   ![r].attempts = 0,
                                                   ![r].pc = "settling"]
                   /\ body' = body
              ELSE /\ requests' = [requests EXCEPT ![r] = Caught(requests[r], "pause")]
                   /\ body' = RemoveChild(body, r)
       ELSE IF requests[r].attempts + 1 >= maxAttempts
       THEN /\ requests' = [requests EXCEPT ![r] =
                   Caught(requests[r], "Timeout waiting for playback to reach target")]
            /\ body' = RemoveChild(body, r)
       ELSE /\ requests' = [requests EXCEPT ![r].attempts = @ + 1]
            /\ body' = body

ConcPollThrows(r) ==
    /\ requests[r].checkInterval
    /\ requests[r].attempts < maxAttempts + ExtraPolls
    /\ EngineOf(r) = "erratic"
    /\ requests' = [requests EXCEPT ![r].attempts = @ + 1]
    /\ UNCHANGED <<soloVars, body>>

ConcSettleTimer(r) ==
    /\ requests[r].pc = "settling"
    /\ UNCHANGED soloVars
    /\ \E step \in {"ok", "getCurrentTime", "iframe", "contentDocument", "snapshot",
                    "Snapshot returned null", "getMetaData", "destroy"} :
         CASE step = "ok" ->
                /\ requests' = [requests EXCEPT ![r] =
                       [requests[r] EXCEPT
                          !.replayer = "destroyed",
                          !.builderOutcome = "resolved",
                          !.pc = "done",
                          !.result = Ok(BuildTrimmed(events,
                                                     SyntheticSnapshot(requests[r].startMs),
                                                     requests[r].startMs, requests[r].endMs))]]
                /\ body' = RemoveChild(body, r)
           [] step = "getCurrentTime" ->
                /\ requests' = [requests EXCEPT ![r].pc = "stalled"]
                /\ body' = body
           [] OTHER ->
                /\ requests' = [requests EXCEPT ![r] = Caught(requests[r], step)]
                /\ body' = RemoveChild(body, r)

NextConc ==
    \E r \in Requests :
      \/ \E a \in ConcArgs : ConcTrimRecording(r, a[1], a[2])
      \/ ConcInitTimer(r)
      \/ \E d \in PollDeltas(EngineOf(r)) : ConcPoll(r, d)
      \/ ConcPollThrows(r)
      \/ ConcSettleTimer(r)

SpecConc == InitConc /\ [][NextConc]_vars

----------------------------------------------------------------------------
(* The utilities called on their own *)

utilRest ==
    <<events, engineKind, op, pc, args, startMs, endMs, container, replayer, attempts,
      checkInterval, reported, phases, builderOutcome, usedFallback, result,
      syntheticSnapshot, stats, requests, body, app>>

InitUtil ==
    /\ events = <<>>
    /\ engineKind = "prompt"
    /\ op = "none"
    /\ pc = "idle"
    /\ args = <<>>
    /\ startMs = 0
    /\ endMs = 0
    /\ container = FALSE
    /\ replayer = "none"
    /\ attempts = 0
    /\ checkInterval = FALSE
    /\ reported = 0
    /\ phases = <<>>
    /\ builderOutcome = "none"
    /\ usedFallback = FALSE
    /\ result = NoResult
    /\ syntheticSnapshot = <<>>
    /\ stats = NoStats
    /\ requests = [r \in Requests |-> IdleRequest]
    /\ body = {}
    /\ util = NoCall
    /\ app = InitialApp

\* analyzeRecording(value) for a value of AnalyzeInputs; left is the value as the call leaves it
CallAnalyzeRecording ==
    /\ util.fn = "none"
    /\ \E value \in AnalyzeInputs :
         util' = [fn |-> "analyzeRecording", arg |-> value,
                  left |-> [kind |-> value.kind, items |-> EventsAfter(value.items, <<>>)],
                  ret |-> analyzeRecordingOf(value), seconds |-> 0 - 1]
    /\ UNCHANGED utilRest

\* formatTime(seconds) for a whole number of seconds up to MaxFormatSeconds
FormatTime ==
    /\ util.fn = "none"
    /\ \E seconds \in 0..MaxFormatSeconds :
         util' = [fn |-> "formatTime", arg |-> seconds, left |-> seconds,
                  ret |-> formatTime(seconds), seconds |-> seconds]
    /\ UNCHANGED utilRest

\* parseTimeString(timeStr) of a typed string
ParseTimeString ==
    /\ util.fn = "none"
    /\ \E timeStr \in TimeStrings :
         util' = [fn |-> "parseTimeString", arg |-> timeStr, left |-> timeStr,
                  ret |-> parseTimeString(timeStr), seconds |-> 0 - 1]
    /\ UNCHANGED utilRest

\* parseTimeString of the string formatTime returned
ParseFormatted ==
    /\ util.fn = "formatTime"
    /\ util' = [fn |-> "parseTimeString", arg |-> util.ret, left |-> util.ret,
                ret |-> parseTimeString(util.ret), seconds |-> util.seconds]
    /\ UNCHANGED utilRest

NextUtil ==
    \/ CallAnalyzeRecording
    \/ FormatTime
    \/ ParseTimeString
    \/ ParseFormatted

SpecUtil == InitUtil /\ [][NextUtil]_vars

----------------------------------------------------------------------------
(* The trim handles of the App component; times are milliseconds *)

\* the durations of the recordings loaded
Durations == {500, 1000, 2500}

\* where the timeline slider and the trim handles are dragged to
HandleValues == {0 - 500, 0, 500, 1000, 1500, 2000, 2500, 3000}

appRest ==
    <<events, engineKind, op, pc, args, startMs, endMs, container, replayer, attempts,
      checkInterval, reported, phases, builderOutcome, usedFallback, result,
      syntheticSnapshot, stats, requests, body, util>>

\* no recording loaded
InitApp == InitUtil

\* initializeReplayer: setDuration(totalDuration); setTrimEnd(totalDuration);
\* setCurrentTime(0)
InitializeReplayer(totalDuration) ==
    /\ app.duration = 0
    /\ app' = [app EXCEPT !.duration = totalDuration, !.trimEnd = totalDuration,
                          !.currentTime = 0]
    /\ UNCHANGED appRest

\* handleTimelineChange: seek to newTime clamped to the recording
HandleTimelineChange(newTime) ==
    /\ app.duration > 0
    /\ app' = [app EXCEPT !.currentTime = Max(0, Min(newTime, app.duration))]
    /\ UNCHANGED appRest

HandleStartTrimming ==
    /\ app' = IF app.duration - app.currentTime < 1000
              THEN [app EXCEPT !.isTrimmingMode = TRUE,
                               !.trimStart = Max(0, app.duration - 1000),
                               !.trimEnd = app.duration]
              ELSE [app EXCEPT !.isTrimmingMode = TRUE,
                               !.trimStart = app.currentTime,
                               !.trimEnd = Min(app.duration,
                                               Max(app.currentTime + 1000, app.duration))]
    /\ UNCHANGED appRest

HandleTrimHandleChange(type, value) ==
    /\ app' = IF type = "start"
              THEN [app EXCEPT !.trimStart = Max(0, Min(value, app.trimEnd - 1000))]
              ELSE [app EXCEPT !.trimEnd = Max(app.trimStart + 1000, Min(value, app.duration))]
    /\ UNCHANGED appRest

HandleCancelTrim ==
    /\ app' = [app EXCEPT !.isTrimmingMode = FALSE, !.trimStart = 0,
                          !.trimEnd = app.duration]
    /\ UNCHANGED appRest

NextApp ==
    \/ \E totalDuration \in Durations : InitializeReplayer(totalDuration)
    \/ \E newTime \in HandleValues : HandleTimelineChange(newTime)
    \/ HandleStartTrimming
    \/ \E type \in {"start", "end"}, value \in HandleValues : HandleTrimHandleChange(type, value)
    \/ HandleCancelTrim

SpecApp == InitApp /\ [][NextApp]_vars

----------------------------------------------------------------------------
(* Properties *)

CutReturned == op = "cut" /\ pc = "done" /\ result.kind = "log"
TrimReturned == op = "trim" /\ pc = "done" /\ result.kind = "log"
TrimAccepted == op = "trim" /\ Len(events) > 0 /\ startMs < endMs
BuilderFailed == builderOutcome \notin {"none", "resolved"}
HasFullSnapshot(log) == \E i \in 1..Len(log) : log[i].type = FullSnapshot

\* the full snapshot cutRecording selected for the call in args
SelectedSnapshot ==
    events[ClosestSnapshot(events, 1, 0, CutStartTime(events, args[1], args[2]))]

\* C1: the first event of the log returned by cutRecording is the selected
\* full snapshot with its original timestamp.
C1_SnapshotFirst == CutReturned => result.log[1] = SelectedSnapshot

\* C2: every log returned by cutRecording or trimRecording (reconstruction
\* path or fallback) has non-decreasing timestamps.
C2_NonDecreasing == (pc = "done" /\ result.kind = "log") => IsOrdered(result.log)

\* C3: when the log holds a full snapshot at the clamped startMs,
\* trimRecording uses it as the boundary snapshot and never starts
\* createTrueSyntheticSnapshot (no container, no replayer).
C3_ExactSnapshotSkipsBuilder ==
    (TrimAccepted /\ \E i \in 1..Len(events) :
                       events[i].type = FullSnapshot /\ events[i].timestamp = startMs)
      => /\ phases = <<>>
         /\ replayer = "none"
         /\ pc = "done" /\ result.kind = "log"
         /\ result.log[2].data \in 1..Len(events)
         /\ events[result.log[2].data].type = FullSnapshot
         /\ events[result.log[2].data].timestamp = startMs

\* C4: however createTrueSyntheticSnapshot ends or stalls, the replayer has
\* been destroyed and the container removed from the document.
C4_AlwaysReleased ==
    (pc \in {"done", "stalled"}) => (~container /\ replayer # "live")

\* C5: the wait for playback settles within at most 1000 polls: while the
\* interval is still armed fewer than maxAttempts polls have run.
C5_SettlesWithinMaxAttempts == checkInterval => attempts < maxAttempts

\* C6: when createTrueSyntheticSnapshot fails, trimRecording's outcome is the
\* outcome of trimRecordingFallback on the same log and the clamped range.
C6_FallbackOutcome ==
    (op = "trim" /\ pc = "done" /\ BuilderFailed)
      => result = trimRecordingFallback(events, ClampStart(events, args[1]),
                                        ClampEnd(events, args[2]))

C6_Witness ==
    /\ op = "trim" /\ pc = "done"
    /\ builderOutcome = "Timeout waiting for playback to reach target"
    /\ result.kind = "log"
    /\ args[1] < events[1].timestamp

\* C7: on a log with a full snapshot and a non-empty clamped range,
\* trimRecording returns a log and never raises, also when the builder fails.
C7_NeverRaises ==
    (op = "trim" /\ pc = "done" /\ TrimAccepted /\ HasFullSnapshot(events))
      => result.kind = "log"

C7_Witness ==
    /\ TrimReturned /\ BuilderFailed /\ usedFallback
    /\ \E i \in 1..Len(result.log) : result.log[i].data = FallbackFillerData

\* C8: every returned log has at least 2 events and at least one full
\* snapshot, so cutRecording and trimRecording accept it again.
C8_ValidOutput ==
    (pc = "done" /\ result.kind = "log")
      => (Len(result.log) >= 2 /\ HasFullSnapshot(result.log))

C8_Witness ==
    /\ CutReturned
    /\ Len(result.log) = 2
    /\ result.log[2].data = CutFillerData

\* the positions of the source events inside (startMs, endMs]
KeptPositions == { i \in 1..Len(events) :
                     events[i].timestamp > startMs /\ events[i].timestamp <= endMs }

C10_NoMoreEvents == TrimReturned => Len(result.log) <= Len(events)

\* C10 amended: trimRecording returns at most one event more than the source
\* has (the Meta event and the boundary snapshot are added, the first source
\* event is never in the range).
C10_AtMostOneMore == TrimReturned => Len(result.log) <= Len(events) + 1

C10_Witness == TrimReturned /\ ~usedFallback /\ Len(result.log) = Len(events) + 1

\* a <= b on numbers
NumLeq(a, b) == a.num * b.den <= b.num * a.den

\* a <= b + ms / 1000 on numbers
NumLeqPlusMs(a, b, ms) == a.num * b.den * 1000 <= (b.num * 1000 + ms * b.den) * a.den

HasData(log, d) == \E i \in 1..Len(log) : log[i].data = d

\* C11 as stated: the duration analyzeRecording reports for the log returned
\* by cutRecording or trimRecording never exceeds that of the source log.
C11_DurationNotLonger ==
    stats.analysed => NumLeq(stats.returned.duration, stats.source.duration)

\* C11 amended: cutRecording's log is no longer than the source unless the
\* filler event was appended, and then its duration is 0.1 s; the
\* reconstruction path's log is at most 2 ms longer than the source; the
\* fallback's log is no longer than the source or lasts at most 10 ms.
C11_DurationBound ==
    stats.analysed =>
      LET src == stats.source.duration
          ret == stats.returned.duration
      IN /\ op = "cut" =>
              \/ NumLeq(ret, src)
              \/ HasData(result.log, CutFillerData) /\ ret = Number(100, 1000)
         /\ (op = "trim" /\ ~usedFallback) => NumLeqPlusMs(ret, src, 2)
         /\ (op = "trim" /\ usedFallback) =>
              (NumLeq(ret, src) \/ NumLeq(ret, Number(10, 1000)))

C11_Witness ==
    /\ stats.analysed /\ op = "trim" /\ ~usedFallback
    /\ ~NumLeq(stats.returned.duration, stats.source.duration)
    /\ builderOutcome = "resolved"

\* C12: re-analysing the log trimRecording returned yields startTime 0: the
\* first event of the returned log has timestamp 0, on either path.
C12_StartsAtZero ==
    (stats.analysed /\ op = "trim")
      => (stats.returned.startTime = Number(0, 1) /\ result.log[1].timestamp = 0)

\* the full snapshot nearest to cutStartTime, the first in log order among
\* the equally near ones, found without the scan
NearestSnapshot ==
    LET cutStartTime == events[1].timestamp + args[1] * 1000 - args[2] * 1000
        Distance(i) == Abs(events[i].timestamp - cutStartTime)
        Snapshots == { i \in 1..Len(events) : events[i].type = FullSnapshot }
    IN CHOOSE i \in Snapshots :
         \A j \in Snapshots : Distance(i) < Distance(j) \/ (Distance(i) = Distance(j) /\ i <= j)

\* C13: cutRecording selects the full snapshot with the least absolute
\* distance to cutStartTime, and the first in log order among equally near
\* ones; the returned log holds that snapshot and no other full snapshot
\* with its timestamp.
C13_NearestFirstSelected ==
    (op = "cut" /\ pc = "done" /\ HasFullSnapshot(events))
      => /\ result.kind = "log"
         /\ SelectedSnapshot = events[NearestSnapshot]
         /\ \E k \in 1..Len(result.log) : result.log[k] = events[NearestSnapshot]
         /\ \A k \in 1..Len(result.log) :
              (result.log[k].type = FullSnapshot
                 /\ result.log[k].timestamp = events[NearestSnapshot].timestamp)
                => result.log[k] = events[NearestSnapshot]

\* a cut whose nearest full snapshots are tied, the first of them not being
\* the last
C13_Witness ==
    /\ CutReturned
    /\ \E j \in 1..Len(events) :
         /\ j > NearestSnapshot
         /\ events[j].type = FullSnapshot
         /\ Abs(events[j].timestamp - CutStartTime(events, args[1], args[2]))
              = Abs(events[NearestSnapshot].timestamp - CutStartTime(events, args[1], args[2]))

\* the events of the source log cutRecording keeps beside the selected snapshot
CutOthers ==
    LET sel == events[NearestSnapshot]
        cutStartTime == events[1].timestamp + args[1] * 1000 - args[2] * 1000
        cutEndTime == events[1].timestamp + args[1] * 1000 + args[3] * 1000
        lo == IF sel.timestamp < cutStartTime THEN sel.timestamp ELSE cutStartTime
    IN { i \in 1..Len(events) :
           /\ events[i].timestamp >= lo
           /\ events[i].timestamp <= cutEndTime
           /\ ~(events[i].type = FullSnapshot /\ events[i].timestamp = sel.timestamp) }

\* C14: apart from the filler case the log returned by cutRecording is the
\* selected snapshot plus exactly the source events with timestamp in
\* [min(snapshot.timestamp, cutStartTime), cutEndTime] that are not full
\* snapshots at the selected snapshot's timestamp, each with its original
\* timestamp; when only the snapshot results, one Meta event 100 ms after it
\* is appended.
C14_CutContents ==
    CutReturned
      => LET sel == events[NearestSnapshot]
         IN IF CutOthers = {}
            THEN result.log = <<sel, Event(Meta, NoSource, CutFillerData, sel.timestamp + 100)>>
            ELSE /\ Len(result.log) = 1 + Cardinality(CutOthers)
                 /\ { result.log[k] : k \in 1..Len(result.log) }
                      = {sel} \cup { events[i] : i \in CutOthers }

\* a cut whose selected snapshot lies before cutStartTime and that keeps an
\* event between the two
C14_Witness ==
    /\ CutReturned
    /\ events[NearestSnapshot].timestamp < CutStartTime(events, args[1], args[2])
    /\ \E i \in CutOthers : events[i].timestamp < CutStartTime(events, args[1], args[2])

\* the range of the call in args after the adjustment into the recording
ClampedStart == IF args[1] < events[1].timestamp THEN events[1].timestamp ELSE args[1]
ClampedEnd == IF args[2] > events[Len(events)].timestamp THEN events[Len(events)].timestamp ELSE args[2]

\* what trimRecording(events, ClampedStart, ClampedEnd) settles with when its
\* builder behaves as the one of the call in args did: these arguments lie
\* inside the recording, so nothing is adjusted
ClampedCallResult ==
    IF ClampedStart >= ClampedEnd THEN Err("Invalid time range")
    ELSE IF ExactSnapshot(events, ClampedStart) # 0
    THEN Ok(BuildTrimmed(events, events[ExactSnapshot(events, ClampedStart)],
                         ClampedStart, ClampedEnd))
    ELSE IF builderOutcome = "resolved"
    THEN Ok(BuildTrimmed(events, SyntheticSnapshot(ClampedStart), ClampedStart, ClampedEnd))
    ELSE trimRecordingFallback(events, ClampedStart, ClampedEnd)

TrimSettled == op = "trim" /\ pc \in {"done", "analyzed"} /\ Len(events) > 0

\* C15: clamping is transparent: trimRecording(events, s, e) with s before
\* the first timestamp or e after the last settles as the call with the
\* clamped arguments does under the same builder behaviour, and it does not
\* fail with the range error when the clamped range is non-empty.
C15_ClampingTransparent ==
    TrimSettled
      => /\ result = ClampedCallResult
         /\ ClampedStart < ClampedEnd => result.error # "Invalid time range"

\* a trim given a range wider than the recording on both sides, settled by
\* the reconstruction path
C15_Witness ==
    /\ TrimSettled
    /\ args[1] < events[1].timestamp
    /\ args[2] > events[Len(events)].timestamp
    /\ builderOutcome = "resolved"
    /\ result.kind = "log"

\* C16: trimRecording fails with the range error exactly when the clamped
\* startMs >= endMs, and with the events error on an empty log; in both cases
\* before any reconstruction or fallback: no container, no replayer, no call
\* of trimRecordingFallback.
C16_RangeErrorBeforeWork ==
    op = "trim"
      => IF Len(events) = 0
         THEN /\ pc = "done"
              /\ result = Err("Invalid events array provided")
              /\ phases = <<>> /\ ~container /\ replayer = "none" /\ ~usedFallback
         ELSE IF ClampedStart >= ClampedEnd
         THEN /\ pc = "done"
              /\ result = Err("Invalid time range")
              /\ phases = <<>> /\ ~container /\ replayer = "none" /\ ~usedFallback
         ELSE result.error \notin {"Invalid time range", "Invalid events array provided"}

\* a trim whose range is empty only after the adjustment of endMs
C16_Witness ==
    /\ op = "trim" /\ pc = "done" /\ Len(events) > 0
    /\ args[1] < args[2]
    /\ ClampedStart >= ClampedEnd
    /\ result = Err("Invalid time range")

\* C17: cutRecording and trimRecordingFallback fail with the missing
\* snapshot error if and only if the non-empty log holds no full snapshot,
\* and the error reaches the caller: when the builder fails on a log without
\* full snapshots, trimRecording raises it instead of returning a log.
C17_MissingSnapshot ==
    /\ (op = "cut" /\ pc = "done" /\ Len(events) > 0)
         => (result = Err("No full snapshot found in recording") <=> ~HasFullSnapshot(events))
    /\ (op = "trim" /\ usedFallback)
         => /\ result.error = "No full snapshot found in recording" <=> ~HasFullSnapshot(events)
            /\ ~HasFullSnapshot(events) => result = Err("No full snapshot found in recording")

\* a trim on a log without full snapshots whose builder failed
C17_Witness ==
    /\ op = "trim" /\ usedFallback /\ BuilderFailed
    /\ Len(events) > 1 /\ ~HasFullSnapshot(events)
    /\ result = Err("No full snapshot found in recording")

\* the wait for the target has ended with resolve()
WaitEnded == \E i \in 1..Len(phases) : phases[i] = "reached"

\* C18 as stated: the builder goes from polling to pause and capture only
\* when the reported current time is within 10 ms of relativeTarget, on
\* either side.
C18_WithinTolerance == WaitEnded => Abs(reported) <= 10

\* C18: the builder goes from polling to pause and capture only when the
\* reported current time is at least relativeTarget - 10; a time more than
\* 10 ms short of the target never ends the wait successfully.
C18_NotShortOfTarget == WaitEnded => reported >= 0 - 10

\* the wait ended by a poll that saw the replayer 11 ms past the target
C18_Witness == pc = "settling" /\ WaitEnded /\ reported = 11

\* the steps of createTrueSyntheticSnapshot when it resolves
SuccessfulSteps ==
    <<"container", "replayer", "play", "reached", "pause", "settled", "capture",
      "destroy", "remove", "resolve">>

\* C19: on every successful reconstruction the steps occur in the order
\* play, target reached, pause, settle delay elapsed, capture, destroy,
\* container removal, resolve; a capture never precedes the end of the settle
\* delay nor follows the destroy, and the snapshot the builder resolves with
\* has timestamp = targetTimestamp.
C19_StepOrder ==
    /\ builderOutcome = "resolved"
         => /\ phases = SuccessfulSteps
            /\ Len(syntheticSnapshot) = 1
            /\ syntheticSnapshot[1].type = FullSnapshot
            /\ syntheticSnapshot[1].timestamp = startMs
            /\ startMs = ClampedStart
    /\ \A i \in 1..Len(phases) :
         phases[i] = "capture"
           => /\ \E j \in 1..(i - 1) : phases[j] = "settled"
              /\ \A j \in 1..(i - 1) : phases[j] # "destroy"

\* a reconstruction that resolved for a target after the start of the recording
C19_Witness ==
    /\ builderOutcome = "resolved"
    /\ startMs > events[1].timestamp
    /\ result.kind = "log"

\* a call running alone settles with trimRecording(events, start, end, outcome)
TrimAloneResult ==
    (op = "trim" /\ pc \in {"done", "analyzed"})
      => result = trimRecording(events, args[1], args[2], builderOutcome)

InFlight(q) == q.pc \in {"initializing", "polling", "settling", "stalled"}

\* C20: for any interleaving of two trimRecording calls on the same events,
\* each call has its own container and replayer and releases only its own:
\* while a call is in flight its container is attached and its replayer
\* alive, whatever the other call does; the result of each call is the one
\* it produces when run alone; once both have returned no container is
\* attached and no replayer is alive.
C20_IndependentCalls ==
    /\ \A r \in Requests :
         /\ InFlight(requests[r]) => (r \in body /\ requests[r].replayer = "live")
         /\ requests[r].pc \in {"idle", "done"}
              => (r \notin body /\ requests[r].replayer # "live")
         /\ requests[r].pc = "done"
              => requests[r].result = trimRecording(events, requests[r].args[1],
                                                    requests[r].args[2],
                                                    requests[r].builderOutcome)
    /\ (\A r \in Requests : requests[r].pc = "done")
         => (body = {} /\ \A r \in Requests : requests[r].replayer # "live")

\* call 2 has resolved its reconstruction and removed its container while
\* call 1, started before it, is still polling
C20_Witness ==
    /\ requests[1].pc = "polling" /\ requests[1].attempts > 0
    /\ requests[2].pc = "done" /\ requests[2].builderOutcome = "resolved"
    /\ body = {1}

\* the string str holds sub somewhere, letter case apart
HoldsIgnoringCase(str, sub) ==
    \E i \in 0..(Len(str) - Len(sub)) :
      \A k \in 1..Len(sub) : LowerChar(str[i + k]) = LowerChar(sub[k])

\* C21: findEventsByContent returns exactly the events whose serialization
\* holds the term as a case-insensitive substring, in log order, and an
\* empty sequence when the term is empty.
C21_SearchResult ==
    op \in {"search", "searchEvents"}
      => /\ result.kind = "log"
         /\ LET Hit(e) == HoldsIgnoringCase(Stringify(e), args[1])
            IN result.log = SelectSeq(events, Hit)
         /\ args[1] = <<>> => result.log = <<>>

RECURSIVE SumOver(_, _)
\* the sum of f over the set of keys
SumOver(f, keys) ==
    IF keys = {} THEN 0
    ELSE LET k == CHOOSE x \in keys : TRUE
         IN f[k] + SumOver(f, keys \ {k})

\* C22: analyzeRecording returns null for a missing, non-array or empty log;
\* for a non-empty log it returns the length, the first and last timestamps,
\* their difference in seconds, and one count per type that is the number of
\* events of that type, the counts summing to the length; the input log is as
\* it was.
C22_Statistics ==
    util.fn = "analyzeRecording"
      => LET log == util.arg.items
             ret == util.ret
         IN /\ util.left = util.arg
            /\ IF util.arg.kind # "array" \/ Len(log) = 0
               THEN ret.null
               ELSE /\ ~ret.null
                    /\ ret.totalEvents = Len(log)
                    /\ ret.startTime.den = 1 /\ ret.startTime.num = log[1].timestamp
                    /\ ret.endTime.den = 1 /\ ret.endTime.num = log[Len(log)].timestamp
                    /\ 1000 * ret.duration.num
                         = (log[Len(log)].timestamp - log[1].timestamp) * ret.duration.den
                    /\ DOMAIN ret.eventTypeCounts = { log[i].type : i \in 1..Len(log) }
                    /\ \A t \in DOMAIN ret.eventTypeCounts :
                         ret.eventTypeCounts[t] = Cardinality({ i \in 1..Len(log) : log[i].type = t })
                    /\ SumOver(ret.eventTypeCounts, DOMAIN ret.eventTypeCounts) = ret.totalEvents

\* a log with two events of one type and one of another has been analysed
C22_Witness ==
    /\ util.fn = "analyzeRecording"
    /\ util.arg.kind = "array"
    /\ Len(util.arg.items) = 3
    /\ util.arg.items[1].timestamp < util.arg.items[3].timestamp
    /\ \E t \in DOMAIN util.ret.eventTypeCounts : util.ret.eventTypeCounts[t] = 2

\* str is M:SS: minutes without padding, then two digits of seconds
IsMinutesSeconds(str) ==
    /\ Len(str) >= 4
    /\ str[Len(str) - 2] = ":"
    /\ \A i \in 1..Len(str) : i # Len(str) - 2 => IsDigit(str[i])
    /\ (Len(str) > 4 => str[1] # "0")

\* str is H:MM:SS: hours without padding, two digits of minutes and of seconds
IsHoursMinutesSeconds(str) ==
    /\ Len(str) >= 7
    /\ str[Len(str) - 2] = ":"
    /\ str[Len(str) - 5] = ":"
    /\ \A i \in 1..Len(str) : i \notin {Len(str) - 2, Len(str) - 5} => IsDigit(str[i])
    /\ str[1] # "0"

\* the number a decimal numeral stands for
RECURSIVE Decimal(_)
Decimal(str) == IF str = <<>> THEN 0 ELSE 10 * Decimal(SubSeq(str, 1, Len(str) - 1)) + DigitValue(str[Len(str)])

\* C23: formatTime(s) of a whole s >= 0 is M:SS below 3600 and H:MM:SS from
\* 3600 on (5 -> 0:05, 65 -> 1:05, 3665 -> 1:01:05), parseTimeString gives s
\* back from it, and a digits-only string parses to its number.
C23_FormatParse ==
    /\ util.fn = "formatTime"
         => /\ util.arg < 3600 => IsMinutesSeconds(util.ret)
            /\ util.arg >= 3600 => IsHoursMinutesSeconds(util.ret)
            /\ util.arg = 5 => util.ret = <<"0", ":", "0", "5">>
            /\ util.arg = 65 => util.ret = <<"1", ":", "0", "5">>
            /\ util.arg = 3665 => util.ret = <<"1", ":", "0", "1", ":", "0", "5">>
    /\ util.fn = "parseTimeString" /\ util.seconds >= 0
         => util.ret = [nan |-> FALSE, value |-> util.seconds]
    /\ util.fn = "parseTimeString" /\ util.arg # <<>>
         /\ (\A i \in 1..Len(util.arg) : IsDigit(util.arg[i]))
         => util.ret = [nan |-> FALSE, value |-> Decimal(util.arg)]

\* 1:01:05 has been formatted from 3665 and parsed back
C23_Witness ==
    /\ util.fn = "parseTimeString"
    /\ util.seconds = 3665
    /\ util.arg = <<"1", ":", "0", "1", ":", "0", "5">>
    /\ util.ret.value = 3665

FallbackReturned == op = "trim" /\ usedFallback /\ pc = "done" /\ result.kind = "log"

\* the full snapshots of the source log at or before the clamped startMs
SnapshotsNotAfterStart ==
    { i \in 1..Len(events) : events[i].type = FullSnapshot /\ events[i].timestamp <= startMs }

\* the base the fallback should select: the full snapshot with the greatest
\* timestamp at or before startMs, the last of them in log order, else the
\* first full snapshot of the log
ExpectedBase ==
    IF SnapshotsNotAfterStart # {}
    THEN CHOOSE i \in SnapshotsNotAfterStart :
           \A j \in SnapshotsNotAfterStart :
             \/ events[j].timestamp < events[i].timestamp
             \/ events[j].timestamp = events[i].timestamp /\ j <= i
    ELSE CHOOSE i \in 1..Len(events) :
           events[i].type = FullSnapshot /\ \A j \in 1..(i - 1) : events[j].type # FullSnapshot

\* C24: in a timestamp-ordered log the fallback's base is the full snapshot
\* with the greatest timestamp at or before startMs (the last such in log
\* order), within the 30 second window or not, and the first full snapshot
\* of the log when none is at or before startMs.
C24_BaseSelection ==
    FallbackReturned
      => LET expected == ExpectedBase
         IN /\ BaseSnapshotIndex(events, startMs) = expected
            /\ \E k \in 1..Len(result.log) :
                 result.log[k].type = FullSnapshot /\ result.log[k].data = expected

\* the fallback chose the later of two full snapshots that are both more than
\* 30 seconds before startMs
C24_Witness ==
    /\ FallbackReturned
    /\ Cardinality(SnapshotsNotAfterStart) = 2
    /\ \A i \in SnapshotsNotAfterStart : events[i].timestamp < startMs - threshold
    /\ result.log[1].data = 2

\* how many events of the returned log carry the payload of source event i
Copies(i) == Cardinality({ k \in 1..Len(result.log) : result.log[k].data = i })

\* the source events the walk from position base should retain: after the
\* base, not past the first event later than endMs, no full snapshot, before
\* startMs mutations only
ShouldRetain(base, i) ==
    /\ i > base
    /\ \A j \in (base + 1)..i : events[j].timestamp <= endMs
    /\ events[i].type # FullSnapshot
    /\ events[i].timestamp < startMs
         => (events[i].type = IncrementalSnapshot /\ events[i].source = Mutation)

\* the Meta event the fallback emits a copy of next to the base
EmittedMeta(i) ==
    events[i].type = Meta /\ \A j \in 1..(i - 1) : events[j].type # Meta

StampedAt(i, n, d) ==
    \E k \in 1..Len(result.log) :
      /\ result.log[k].data = i
      /\ result.log[k].type = events[i].type
      /\ result.log[k].timestamp * d = n * result.log[k].den

\* the mutations before startMs the walk from position base should retain
RetainedEarlier(base) ==
    { i \in 1..Len(events) : ShouldRetain(base, i) /\ events[i].timestamp < startMs }

\* the copy of the retained mutation i in the returned log
StampOf(i) ==
    LET k == CHOOSE x \in 1..Len(result.log) : result.log[x].data = i
    IN result.log[k]

\* C26: a retained mutation with timestamp t before startMs gets
\* 100 * min((t - base.timestamp) / shift, 1) with shift = startMs -
\* base.timestamp, a value from 0 to 100, in the order of the original
\* timestamps; an event with t >= startMs gets t - startMs + 100, at
\* least 100.
C26_Retimestamping ==
    FallbackReturned
      => LET expected == ExpectedBase
             base == events[expected]
             shift == startMs - base.timestamp
             earlier == RetainedEarlier(expected)
         IN /\ \A i \in earlier :
                 LET t == events[i].timestamp
                 IN /\ shift > 0
                    /\ IF t - base.timestamp >= shift
                       THEN StampedAt(i, 100, 1)
                       ELSE StampedAt(i, 100 * (t - base.timestamp), shift)
                    /\ 0 <= StampOf(i).timestamp
                    /\ StampOf(i).timestamp <= 100 * StampOf(i).den
            /\ \A i, j \in earlier :
                 events[i].timestamp <= events[j].timestamp => TsLeq(StampOf(i), StampOf(j))
            /\ \A i \in 1..Len(events) :
                 (ShouldRetain(expected, i) /\ events[i].timestamp >= startMs)
                   => /\ StampedAt(i, events[i].timestamp - startMs + 100, 1)
                      /\ events[i].timestamp - startMs + 100 >= 100

\* two mutations before startMs were compressed to different places of the
\* first 100 ms and an event in range was shifted
C26_Witness ==
    /\ FallbackReturned
    /\ \E i, j \in RetainedEarlier(ExpectedBase) :
         TsLess(StampOf(i), StampOf(j)) /\ StampOf(j).timestamp > 0
    /\ \E i \in 1..Len(events) : ShouldRetain(ExpectedBase, i) /\ events[i].timestamp > startMs

\* C29: for a timestamp-ordered log, a log returned by the fallback holds
\* exactly one full snapshot, the base, at index 0, so that every mutation
\* of the output comes after a full snapshot.
C29_SingleSnapshotFirst ==
    FallbackReturned
      => /\ result.log[1].type = FullSnapshot
         /\ result.log[1].data = ExpectedBase
         /\ \A k \in 2..Len(result.log) : result.log[k].type # FullSnapshot
         /\ \A k \in 1..Len(result.log) :
              IsMutation(result.log[k])
                => \E j \in 1..(k - 1) : result.log[j].type = FullSnapshot

\* the fallback returned a log with a mutation from a source log that holds
\* a second full snapshot inside the range
C29_Witness ==
    /\ FallbackReturned
    /\ \E i \in 1..Len(events) :
         /\ i > ExpectedBase /\ events[i].type = FullSnapshot
         /\ events[i].timestamp >= startMs /\ events[i].timestamp <= endMs
    /\ \E k \in 1..Len(result.log) : IsMutation(result.log[k])

\* C30: with whole-millisecond timestamps in the source log and a whole
\* startMs and endMs, every timestamp of a log returned by trimRecording,
\* reconstructed or from the fallback, is a whole number of milliseconds.
C30_WholeMilliseconds ==
    TrimReturned => \A k \in 1..Len(result.log) : result.log[k].den = 1

\* C27: whatever handleStartTrimming, handleTrimHandleChange and
\* handleCancelTrim calls have been made, with any value and any duration,
\* 0 <= trimStart, trimEnd <= duration and trimEnd - trimStart >= 1000 while
\* the handles of a loaded recording are shown.
C27_TrimHandles ==
    (app.duration > 0 /\ app.isTrimmingMode)
      => /\ 0 <= app.trimStart
         /\ app.trimEnd <= app.duration
         /\ app.trimEnd - app.trimStart >= 1000

====
